---------------------------- MODULE Spec2Model ----------------------------
(***************************************************************************)
(* Whiteboard client: the board reducer (store/BoardProvider), the Board   *)
(* component's pointer / keyboard / socket / load handlers and the         *)
(* Sidebar's canvas switch.                                                *)
(*                                                                         *)
(* JavaScript values are encoded as follows.                               *)
(*   - "array or undefined" is an option: Def(xs) = <<xs>>, Undefined =    *)
(*     <<>>.  boardState.elements and every array read history[i] are      *)
(*     options, so an out-of-range read yields Undefined as in JS.         *)
(*   - an element object is a record; its field oid is the object's        *)
(*     identity (not a JS field).  Two records with the same oid are the   *)
(*     same object, so an in-place assignment to the object is applied to  *)
(*     every place that holds that oid.  Structural equality ignores oid.  *)
(***************************************************************************)
EXTENDS Integers, Sequences, FiniteSets, TLC

\* ------------------------------------------------------------------ bounds
MaxDrawn == 1
MaxExternal == 1
MaxHistory == 3
MaxPoints == 2

\* ------------------------------------------------------- program constants
TOOL_ITEMS == {"BRUSH", "LINE", "RECTANGLE", "CIRCLE", "ARROW", "ERASER", "TEXT"}
ShapeTypes == {"LINE", "RECTANGLE", "CIRCLE", "ARROW"}
RenderableTypes == ShapeTypes \cup {"BRUSH", "TEXT"}
TOOL_ACTION_TYPES == {"NONE", "DRAWING", "ERASING", "WRITING"}
ELEMENT_ERASE_THRESHOLD == 1

\* ------------------------------------------------------------ input sets
ToolChoices == {"BRUSH", "RECTANGLE", "TEXT", "ERASER"}
DownPoints == {<<10, 10>>}
MovePoints == {<<50, 50>>}
Texts == {"hi"}
CanvasIds == {"A", "B"}
NoId == "undefined"

Undefined == <<>>
Def(v) == <<v>>
IsDef(o) == o # <<>>
Val(o) == o[1]

\* JS array read xs[i] (0-based): the entry, or undefined outside the array.
At(xs, i) == IF i >= 0 /\ i < Len(xs) THEN Def(xs[i + 1]) ELSE Undefined

\* JS Array.prototype.slice(0, n) for n >= 0.
Slice0(xs, n) == SubSeq(xs, 1, IF n < Len(xs) THEN n ELSE Len(xs))

\* toolboxState[tool]: the style the toolbox holds for a tool.
ToolboxStyle(tool) ==
    [stroke |-> "black",
     fill |-> IF tool \in ShapeTypes THEN "null" ELSE "undefined",
     size |-> 2]

\* utils/element createElement(index, x1, y1, x2, y2, {type, stroke, fill, size})
createElement(oid, index, x1, y1, x2, y2, opts) ==
    [oid |-> oid, index |-> index, type |-> opts.type,
     x1 |-> x1, y1 |-> y1, x2 |-> x2, y2 |-> y2,
     stroke |-> opts.stroke, fill |-> opts.fill, size |-> opts.size,
     points |-> IF opts.type = "BRUSH" THEN << <<x1, y1>> >> ELSE <<>>,
     text |-> ""]

\* An element without its object identity: what structural equality compares.
Strip(e) ==
    [index |-> e.index, type |-> e.type,
     x1 |-> e.x1, y1 |-> e.y1, x2 |-> e.x2, y2 |-> e.y2,
     stroke |-> e.stroke, fill |-> e.fill, size |-> e.size,
     points |-> e.points, text |-> e.text]

StripSeq(es) == [i \in 1..Len(es) |-> Strip(es[i])]
StripOpt(o) == IF IsDef(o) THEN Def(StripSeq(Val(o))) ELSE Undefined
StripHistory(h) == [i \in 1..Len(h) |-> StripSeq(h[i])]

\* ------------------------------------------------------------ hit testing
Sq(n) == n * n
Dist2(ax, ay, bx, by) == Sq(ax - bx) + Sq(ay - by)

\* The point (px,py) lies within the tolerance of the segment (ax,ay)-(bx,by).
isPointCloseToLine(ax, ay, bx, by, px, py) ==
    LET len2 == Dist2(ax, ay, bx, by)
        dot == (px - ax) * (bx - ax) + (py - ay) * (by - ay)
        cross == (px - ax) * (by - ay) - (py - ay) * (bx - ax)
        tol2 == Sq(ELEMENT_ERASE_THRESHOLD)
    IN  IF len2 = 0 \/ dot <= 0 THEN Dist2(ax, ay, px, py) <= tol2
        ELSE IF dot >= len2 THEN Dist2(bx, by, px, py) <= tol2
        ELSE Sq(cross) <= tol2 * len2

isNearOutline(x1, y1, x2, y2, px, py) ==
    \/ isPointCloseToLine(x1, y1, x2, y1, px, py)
    \/ isPointCloseToLine(x2, y1, x2, y2, px, py)
    \/ isPointCloseToLine(x2, y2, x1, y2, px, py)
    \/ isPointCloseToLine(x1, y2, x1, y1, px, py)

\* Measured extent of a text, in units of the font size.
measureText(text) == IF text = "" THEN 0 ELSE 2

isPointNearElement(e, px, py) ==
    CASE e.type \in {"LINE", "ARROW"} ->
            isPointCloseToLine(e.x1, e.y1, e.x2, e.y2, px, py)
      [] e.type \in {"RECTANGLE", "CIRCLE"} ->
            isNearOutline(e.x1, e.y1, e.x2, e.y2, px, py)
      [] e.type = "BRUSH" ->
            \/ \E i \in 1..Len(e.points) :
                 Dist2(e.points[i][1], e.points[i][2], px, py)
                    <= Sq(ELEMENT_ERASE_THRESHOLD)
            \/ \E i \in 1..(Len(e.points) - 1) :
                 isPointCloseToLine(e.points[i][1], e.points[i][2],
                                    e.points[i + 1][1], e.points[i + 1][2], px, py)
      [] e.type = "TEXT" ->
            /\ e.x1 <= px /\ px <= e.x1 + measureText(e.text) * e.size
            /\ e.y1 <= py /\ py <= e.y1 + e.size
      [] OTHER -> FALSE

\* ---------------------------------------------------------- object identity
\* An in-place assignment obj.field = value, w = [oid, field, value], applied
\* to an array holding references to element objects.
AssignObj(e, w) ==
    IF e.oid # w.oid THEN e
    ELSE IF w.field = "points" THEN [e EXCEPT !.points = w.value]
    ELSE [e EXCEPT !.text = w.value]

AssignSeq(es, w) == [i \in 1..Len(es) |-> AssignObj(es[i], w)]
AssignHistory(h, w) == [i \in 1..Len(h) |-> AssignSeq(h[i], w)]

\* ------------------------------------------------------------ boardReducer
initialBoardState(loggedIn) ==
    [activeToolItem |-> "BRUSH",
     toolActionType |-> "NONE",
     elements |-> Def(<<>>),
     history |-> << <<>> >>,
     index |-> 0,
     canvasId |-> "",
     isUserLoggedIn |-> loggedIn]

ReduceChangeTool(state, payload) ==
    Def([state EXCEPT !.activeToolItem = payload.tool])

ReduceChangeActionType(state, payload) ==
    Def([state EXCEPT !.toolActionType = payload.actionType])

\* payload.oid is the identity of the object createElement allocates.
\* ReduceDrawDown also committing the new element as a history entry.
ReduceDrawDownCommitting(state, payload) ==
    IF ~IsDef(state.elements) THEN Undefined
    ELSE
    LET prevElements == Val(state.elements)
        newElement == createElement(payload.oid, Len(prevElements),
                          payload.clientX, payload.clientY,
                          payload.clientX, payload.clientY,
                          [type |-> state.activeToolItem, stroke |-> payload.stroke,
                           fill |-> payload.fill, size |-> payload.size])
    IN  Def([state EXCEPT
              !.toolActionType = IF state.activeToolItem = "TEXT"
                                 THEN "WRITING" ELSE "DRAWING",
              !.elements = Def(Append(prevElements, newElement)),
              !.history = Append(state.history, Append(prevElements, newElement)),
              !.index = state.index + 1])

ReduceDrawDown(state, payload) ==
    IF ~IsDef(state.elements) THEN Undefined
    ELSE
    LET prevElements == Val(state.elements)
        newElement == createElement(payload.oid, Len(prevElements),
                          payload.clientX, payload.clientY,
                          payload.clientX, payload.clientY,
                          [type |-> state.activeToolItem, stroke |-> payload.stroke,
                           fill |-> payload.fill, size |-> payload.size])
    IN  Def([state EXCEPT
              !.toolActionType = IF state.activeToolItem = "TEXT"
                                 THEN "WRITING" ELSE "DRAWING",
              !.elements = Def(Append(prevElements, newElement))])

\* The in-place assignments DRAW_MOVE performs on shared element objects.
DrawMoveWrites(state, payload) ==
    IF IsDef(state.elements) /\ Len(Val(state.elements)) > 0
       /\ Val(state.elements)[Len(Val(state.elements))].type = "BRUSH"
    THEN LET last == Val(state.elements)[Len(Val(state.elements))]
         IN  {[oid |-> last.oid, field |-> "points",
               value |-> Append(last.points, <<payload.clientX, payload.clientY>>)]}
    ELSE {}

\* ReduceDrawMove returning the state as it is when there is no element.
ReduceDrawMoveIgnoresEmpty(state, payload) ==
    IF ~IsDef(state.elements) THEN Undefined
    ELSE IF Len(Val(state.elements)) = 0 THEN Def(state)
    ELSE
    LET newElements == Val(state.elements)
        n == Len(newElements)
        last == newElements[n]
    IN  IF last.type \in ShapeTypes
        THEN LET newElement == createElement(payload.oid, n - 1,
                                   last.x1, last.y1, payload.clientX, payload.clientY,
                                   [type |-> state.activeToolItem, stroke |-> last.stroke,
                                    fill |-> last.fill, size |-> last.size])
             IN  Def([state EXCEPT !.elements = Def([newElements EXCEPT ![n] = newElement])])
        ELSE IF last.type = "BRUSH"
        THEN LET w == CHOOSE x \in DrawMoveWrites(state, payload) : TRUE
             IN  Def([state EXCEPT !.elements = Def(AssignSeq(newElements, w)),
                                   !.history = AssignHistory(state.history, w)])
        ELSE Undefined

\* ReduceDrawMove appending the resized shape instead of replacing the last
\* element.
ReduceDrawMoveAppending(state, payload) ==
    IF ~IsDef(state.elements) \/ Len(Val(state.elements)) = 0 THEN Undefined
    ELSE
    LET newElements == Val(state.elements)
        n == Len(newElements)
        last == newElements[n]
    IN  IF last.type \in ShapeTypes
        THEN LET newElement == createElement(payload.oid, n,
                                   last.x1, last.y1, payload.clientX, payload.clientY,
                                   [type |-> state.activeToolItem, stroke |-> last.stroke,
                                    fill |-> last.fill, size |-> last.size])
             IN  Def([state EXCEPT !.elements = Def(Append(newElements, newElement))])
        ELSE IF last.type = "BRUSH"
        THEN LET w == CHOOSE x \in DrawMoveWrites(state, payload) : TRUE
             IN  Def([state EXCEPT !.elements = Def(AssignSeq(newElements, w)),
                                   !.history = AssignHistory(state.history, w)])
        ELSE Undefined

ReduceDrawMove(state, payload) ==
    IF ~IsDef(state.elements) \/ Len(Val(state.elements)) = 0 THEN Undefined
    ELSE
    LET newElements == Val(state.elements)
        n == Len(newElements)
        last == newElements[n]
    IN  IF last.type \in ShapeTypes
        THEN LET newElement == createElement(payload.oid, n - 1,
                                   last.x1, last.y1, payload.clientX, payload.clientY,
                                   [type |-> state.activeToolItem, stroke |-> last.stroke,
                                    fill |-> last.fill, size |-> last.size])
             IN  Def([state EXCEPT !.elements = Def([newElements EXCEPT ![n] = newElement])])
        ELSE IF last.type = "BRUSH"
        THEN LET w == CHOOSE x \in DrawMoveWrites(state, payload) : TRUE
             IN  Def([state EXCEPT !.elements = Def(AssignSeq(newElements, w)),
                                   !.history = AssignHistory(state.history, w)])
        ELSE Undefined

\* ReduceDrawUp without the truncation of the entries after the cursor.
ReduceDrawUpNoTruncate(state) ==
    IF ~IsDef(state.elements) THEN Undefined
    ELSE Def([state EXCEPT !.history = Append(state.history, Val(state.elements)),
                           !.index = state.index + 1])

ReduceDrawUp(state) ==
    IF ~IsDef(state.elements) THEN Undefined
    ELSE
    LET elementsCopy == Val(state.elements)
        newHistory == Append(Slice0(state.history, state.index + 1), elementsCopy)
    IN  Def([state EXCEPT !.history = newHistory, !.index = state.index + 1])

\* ReduceErase committing only when an element was removed.
ReduceEraseSkipsEmptyCommit(state, payload) ==
    IF ~IsDef(state.elements) THEN Undefined
    ELSE
    LET newElements == SelectSeq(Val(state.elements),
                           LAMBDA element :
                              ~isPointNearElement(element, payload.clientX, payload.clientY))
    IN  IF Len(newElements) = Len(Val(state.elements)) THEN Def(state)
        ELSE Def([state EXCEPT
                    !.elements = Def(newElements),
                    !.history = Append(Slice0(state.history, state.index + 1), newElements),
                    !.index = state.index + 1])

ReduceErase(state, payload) ==
    IF ~IsDef(state.elements) THEN Undefined
    ELSE
    LET newElements == SelectSeq(Val(state.elements),
                           LAMBDA element :
                              ~isPointNearElement(element, payload.clientX, payload.clientY))
        newHistory == Append(Slice0(state.history, state.index + 1), newElements)
    IN  Def([state EXCEPT !.elements = Def(newElements),
                          !.history = newHistory,
                          !.index = state.index + 1])

\* The in-place assignments CHANGE_TEXT performs on shared element objects.
ChangeTextWrites(state, payload) ==
    IF IsDef(state.elements) /\ Len(Val(state.elements)) > 0
    THEN {[oid |-> Val(state.elements)[Len(Val(state.elements))].oid,
           field |-> "text", value |-> payload.text]}
    ELSE {}

\* ReduceChangeText leaving the action type as it is.
ReduceChangeTextStaysWriting(state, payload) ==
    IF ~IsDef(state.elements) \/ Len(Val(state.elements)) = 0 THEN Undefined
    ELSE
    LET w == CHOOSE x \in ChangeTextWrites(state, payload) : TRUE
        newElements == AssignSeq(Val(state.elements), w)
        aliased == AssignHistory(state.history, w)
        newHistory == Append(Slice0(aliased, state.index + 1), newElements)
    IN  Def([state EXCEPT !.elements = Def(newElements),
                          !.history = newHistory,
                          !.index = state.index + 1])

ReduceChangeText(state, payload) ==
    IF ~IsDef(state.elements) \/ Len(Val(state.elements)) = 0 THEN Undefined
    ELSE
    LET w == CHOOSE x \in ChangeTextWrites(state, payload) : TRUE
        newElements == AssignSeq(Val(state.elements), w)
        aliased == AssignHistory(state.history, w)
        newHistory == Append(Slice0(aliased, state.index + 1), newElements)
    IN  Def([state EXCEPT !.toolActionType = "NONE",
                          !.elements = Def(newElements),
                          !.history = newHistory,
                          !.index = state.index + 1])

\* ReduceUndo with the guard index < 0 in place of index <= 0.
ReduceUndoOffByOne(state) ==
    IF state.index < 0 THEN Def(state)
    ELSE Def([state EXCEPT !.elements = At(state.history, state.index - 1),
                           !.index = state.index - 1])

ReduceUndo(state) ==
    IF state.index <= 0 THEN Def(state)
    ELSE Def([state EXCEPT !.elements = At(state.history, state.index - 1),
                           !.index = state.index - 1])

ReduceRedo(state) ==
    IF state.index >= Len(state.history) - 1 THEN Def(state)
    ELSE Def([state EXCEPT !.elements = At(state.history, state.index + 1),
                           !.index = state.index + 1])

ReduceSetCanvasId(state, payload) ==
    Def([state EXCEPT !.canvasId = payload.canvasId])

\* ReduceSetCanvasElements also committing the snapshot as a history entry.
ReduceSetCanvasElementsCommitting(state, payload) ==
    Def([state EXCEPT
           !.elements = Def(payload.elements),
           !.history = Append(Slice0(state.history, state.index + 1), payload.elements),
           !.index = state.index + 1])

\* ReduceSetCanvasElements adding the snapshot to the elements it finds.
ReduceSetCanvasElementsAppending(state, payload) ==
    IF ~IsDef(state.elements) THEN Def([state EXCEPT !.elements = Def(payload.elements)])
    ELSE Def([state EXCEPT !.elements = Def(Val(state.elements) \o payload.elements)])

ReduceSetCanvasElements(state, payload) ==
    Def([state EXCEPT !.elements = Def(payload.elements)])

\* ReduceSetHistory also installing the snapshot as the live elements.
ReduceSetHistoryAndElements(state, payload) ==
    Def([state EXCEPT !.history = <<payload.elements>>,
                      !.elements = Def(payload.elements)])

ReduceSetHistory(state, payload) ==
    Def([state EXCEPT !.history = <<payload.elements>>])

ReduceSetUserLoginStatus(state, payload) ==
    Def([state EXCEPT !.isUserLoggedIn = payload.isUserLoggedIn])

boardReducer(state, action) ==
    CASE action.type = "CHANGE_TOOL" -> ReduceChangeTool(state, action.payload)
      [] action.type = "CHANGE_ACTION_TYPE" -> ReduceChangeActionType(state, action.payload)
      [] action.type = "DRAW_DOWN" -> ReduceDrawDown(state, action.payload)
      [] action.type = "DRAW_MOVE" -> ReduceDrawMove(state, action.payload)
      [] action.type = "DRAW_UP" -> ReduceDrawUp(state)
      [] action.type = "ERASE" -> ReduceErase(state, action.payload)
      [] action.type = "CHANGE_TEXT" -> ReduceChangeText(state, action.payload)
      [] action.type = "UNDO" -> ReduceUndo(state)
      [] action.type = "REDO" -> ReduceRedo(state)
      [] action.type = "SET_CANVAS_ID" -> ReduceSetCanvasId(state, action.payload)
      [] action.type = "SET_CANVAS_ELEMENTS" -> ReduceSetCanvasElements(state, action.payload)
      [] action.type = "SET_HISTORY" -> ReduceSetHistory(state, action.payload)
      [] action.type = "SET_USER_LOGIN_STATUS" ->
            ReduceSetUserLoginStatus(state, action.payload)
      [] OTHER -> Def(state)

\* The in-place assignments one action performs, for holders of element
\* references outside the board state.
ActionWrites(state, action) ==
    CASE action.type = "DRAW_MOVE" -> DrawMoveWrites(state, action.payload)
      [] action.type = "CHANGE_TEXT" -> ChangeTextWrites(state, action.payload)
      [] OTHER -> {}

\* ------------------------------------------------------------------ client
VARIABLES
    boardState,    \* useReducer state of BoardProvider
    status,        \* "running"; "reducerThrew" or "renderThrew" once the
                   \* reducer or a render threw (the application is gone)
    id,            \* route parameter of the Board (NoId on "/")
    token,         \* a credential token is stored in localStorage
    isAuthorized,  \* Board's useState flag
    listeners,     \* per event name, the number of listeners the Board has
                   \* registered on the socket
    loads,         \* canvas ids whose load request is in flight
    frames,        \* pending requestAnimationFrame callbacks (their snapshot)
    sent,          \* the message the last handler emitted on the socket, if any
    ev,            \* the types of the actions the last handler dispatched
    handler,       \* the handler that ran last ("mount" before any ran)
    gesture,       \* history (by value) and index at the mouse-down of the
                   \* pointer gesture in progress or just finished by a
                   \* mouse-up (no other event since), with whether it has
                   \* moved, else Undefined
    drawn,         \* number of DRAW_DOWN actions dispatched so far
    external,      \* number of server messages, load responses and canvas
                   \* switches handled so far
    route,         \* the page App's router shows: "home", "login", "register"
    email,         \* Sidebar's share email input
    error,         \* Sidebar's error notice ("" when none)
    canvases,      \* Sidebar's list of canvas ids
    password,      \* Register's password input
    confirmPassword, \* Register's confirmation input
    requests,      \* the HTTP requests the last handler issued
    pending        \* requests in flight, each with the values its handler's
                   \* render had read (the continuation's closure)

formVars == <<route, email, error, canvases, password, confirmPassword,
              requests, pending>>
vars == <<boardState, status, id, token, isAuthorized, listeners, loads, frames,
          sent, ev, handler, gesture, drawn, external,
          route, email, error, canvases, password, confirmPassword,
          requests, pending>>

\* Snapshots a server may deliver (elements arrive as fresh objects).
RemoteRect ==
    Strip(createElement(0, 0, 10, 10, 50, 50,
            [type |-> "RECTANGLE", stroke |-> "black", fill |-> "null", size |-> 2]))
RemoteDot ==
    Strip(createElement(0, 1, 10, 10, 10, 10,
            [type |-> "BRUSH", stroke |-> "black", fill |-> "undefined", size |-> 2]))
Snapshots == {<<>>, <<RemoteRect, RemoteDot>>}

\* ---- object identities: allocation and canonical naming
OidsOfSeq(es) == {es[i].oid : i \in 1..Len(es)}
OidsOfSeqs(h) == UNION {OidsOfSeq(h[i]) : i \in 1..Len(h)}
OidsOf(state, fr) ==
    (IF IsDef(state.elements) THEN OidsOfSeq(Val(state.elements)) ELSE {})
      \cup OidsOfSeqs(state.history) \cup OidsOfSeqs(fr)

\* The identity of the k-th object allocated next (k >= 1).
FreshOid(k) == Cardinality(OidsOf(boardState, frames)) + k

RECURSIVE Flatten(_)
Flatten(h) == IF h = <<>> THEN <<>> ELSE Head(h) \o Flatten(Tail(h))

\* All references held, in a fixed order of the places that hold them.
Refs(state, fr) ==
    (IF IsDef(state.elements) THEN Val(state.elements) ELSE <<>>)
      \o Flatten(state.history) \o Flatten(fr)

\* Identities are names only: after each step the live objects are renamed
\* 1, 2, ... in the order of their first reference.
Rank(refs, o) ==
    LET first == CHOOSE j \in 1..Len(refs) :
                    refs[j].oid = o /\ \A m \in 1..(j - 1) : refs[m].oid # o
    IN  Cardinality({refs[m].oid : m \in 1..(first - 1)}) + 1

RenameSeq(es, refs) == [i \in 1..Len(es) |-> [es[i] EXCEPT !.oid = Rank(refs, es[i].oid)]]
RenameSeqs(h, refs) == [i \in 1..Len(h) |-> RenameSeq(h[i], refs)]
RenameState(state, fr) ==
    LET refs == Refs(state, fr)
    IN  [state EXCEPT
           !.elements = IF IsDef(state.elements)
                        THEN Def(RenameSeq(Val(state.elements), refs)) ELSE Undefined,
           !.history = RenameSeqs(state.history, refs)]
RenameFrames(state, fr) == RenameSeqs(fr, Refs(state, fr))

\* A received snapshot as objects of this client.
Materialize(snap) ==
    [i \in 1..Len(snap) |->
        [oid |-> FreshOid(i), index |-> snap[i].index, type |-> snap[i].type,
         x1 |-> snap[i].x1, y1 |-> snap[i].y1, x2 |-> snap[i].x2, y2 |-> snap[i].y2,
         stroke |-> snap[i].stroke, fill |-> snap[i].fill, size |-> snap[i].size,
         points |-> snap[i].points, text |-> snap[i].text]]

\* dispatchBoardAction for the actions of one handler, in order: the
\* resulting state, or Undefined when the reducer throws.
RECURSIVE Dispatch(_, _)
Dispatch(state, actions) ==
    IF actions = <<>> THEN Def(state)
    ELSE LET r == boardReducer(state, Head(actions))
         IN  IF IsDef(r) THEN Dispatch(Val(r), Tail(actions)) ELSE Undefined

\* The in-place assignments of a handler's actions.
RECURSIVE Writes(_, _)
Writes(state, actions) ==
    IF actions = <<>> THEN {}
    ELSE LET r == boardReducer(state, Head(actions))
         IN  ActionWrites(state, Head(actions))
               \cup (IF IsDef(r) THEN Writes(Val(r), Tail(actions)) ELSE {})

RECURSIVE AssignAll(_, _)
AssignAll(h, ws) ==
    IF ws = {} THEN h
    ELSE LET w == CHOOSE x \in ws : TRUE
         IN  AssignAll(AssignHistory(h, w), ws \ {w})

\* Board's drawing effect and JSX: rendering throws when elements is
\* undefined or holds an element of a type the switch does not know.
Renders(state) ==
    /\ IsDef(state.elements)
    /\ \A i \in 1..Len(Val(state.elements)) :
          Val(state.elements)[i].type \in RenderableTypes

ActionTypes(actions) == [i \in 1..Len(actions) |-> actions[i].type]

\* One handler run: its actions go through the reducer, then the tree
\* re-renders.  A throw in either unmounts the application.  fr is the list
\* of pending frame callbacks the handler leaves.
Run(actions, fr) ==
    LET r == Dispatch(boardState, actions)
        held == AssignAll(fr, Writes(boardState, actions))
    IN  /\ ev' = ActionTypes(actions)
        /\ IF IsDef(r)
           THEN /\ boardState' = RenameState(Val(r), held)
                /\ frames' = RenameFrames(Val(r), held)
                /\ status' = IF Renders(Val(r)) THEN "running" ELSE "renderThrew"
           ELSE /\ boardState' = boardState
                /\ frames' = frames
                /\ status' = "reducerThrew"

Act(type, payload) == [type |-> type, payload |-> payload]

\* ---- the Board's use of the socket
ListenerEvents == {"receiveDrawingUpdate", "loadCanvas", "unauthorized"}
NoListeners == [name \in ListenerEvents |-> 0]
Listening(name) == listeners[name] > 0

Off(name) == [op |-> "off", arg |-> name]
On(name) == [op |-> "on", arg |-> name]
Emit(name, c) == [op |-> "emit", arg |-> name, canvasId |-> c]

\* The effect on [id] returning no cleanup.
SocketOpsNoCleanup(oldId, newId) ==
    IF newId # NoId
    THEN <<Emit("joinCanvas", newId),
           On("receiveDrawingUpdate"), On("loadCanvas"), On("unauthorized")>>
    ELSE <<>>

\* The socket calls of the Board's effect on [id] when the route parameter
\* goes from oldId to newId: the cleanup the previous run returned (it
\* returned one only for a defined id), then the new run.
SocketOps(oldId, newId) ==
    (IF oldId # NoId
     THEN <<Off("receiveDrawingUpdate"), Off("loadCanvas"), Off("unauthorized")>>
     ELSE <<>>)
    \o (IF newId # NoId
        THEN <<Emit("joinCanvas", newId),
               On("receiveDrawingUpdate"), On("loadCanvas"), On("unauthorized")>>
        ELSE <<>>)

\* socket.on adds a listener; socket.off(name) removes every listener of name.
ApplyOp(l, o) ==
    IF o.op = "on" THEN [l EXCEPT ![o.arg] = @ + 1]
    ELSE IF o.op = "off" THEN [l EXCEPT ![o.arg] = 0]
    ELSE l

RECURSIVE ApplyOps(_, _)
ApplyOps(l, ops) ==
    IF ops = <<>> THEN l ELSE ApplyOps(ApplyOp(l, Head(ops)), Tail(ops))
NoPayload == [none |-> TRUE]
NoMessage == Undefined
JoinCanvas(c) == Def([type |-> "joinCanvas", canvasId |-> c, elements |-> Undefined])

\* ---- requests and the closures of their continuations
Falsy(c) == c \in {"", NoId}
Request(kind, arg, mail) == [kind |-> kind, arg |-> arg, email |-> mail]

\* What a Sidebar render has read: handlers created in it, and the
\* continuations of their requests, see these values.
Closure(tok, cs, cid, rid) ==
    [kind |-> "render", arg |-> NoId, email |-> "", inner |-> "none",
     token |-> tok, canvases |-> cs, canvasId |-> cid, id |-> rid,
     orphan |-> FALSE]

\* Sidebar.fetchCanvases up to its await, in the render c.
fetchCanvases(c) ==
    IF ~c.token THEN {}
    ELSE {[c EXCEPT !.kind = "list", !.arg = NoId, !.inner = "none"]}

\* Sidebar mounts: fresh state, and its effect on [isUserLoggedIn].
SidebarMounted ==
    /\ email = "" /\ error = "" /\ canvases = <<>>
    /\ requests = {}
    /\ pending = IF boardState.isUserLoggedIn
                 THEN fetchCanvases(Closure(token, <<>>, "", id))
                 ELSE {}

\* The application starts on a page: the BoardProvider holds the initial
\* board state and, on the home page, the Board's effects on id have run.
Booted ==
    /\ boardState = [initialBoardState(token) EXCEPT
                        !.canvasId = IF id = NoId THEN "" ELSE id]
    /\ status = "running"
    /\ isAuthorized = TRUE
    /\ listeners = ApplyOps(NoListeners, SocketOps(NoId, id))
    /\ loads = IF id # NoId /\ token THEN {id} ELSE {}
    /\ frames = <<>>
    /\ sent = IF id # NoId THEN JoinCanvas(id) ELSE NoMessage
    /\ ev = <<>>
    /\ handler = "mount"
    /\ gesture = Undefined
    /\ drawn = 0
    /\ external = 0
    /\ password = "" /\ confirmPassword = ""

Init ==
    /\ token = TRUE
    /\ id \in {"A", NoId}
    /\ route = "home"
    /\ Booted
    /\ SidebarMounted

Running == status = "running"

\* The drawingUpdate the pointer handlers emit: it carries the elements of
\* the render the handler was created in, i.e. from before its dispatch.
DrawingUpdate ==
    Def([type |-> "drawingUpdate", canvasId |-> id,
         elements |-> StripOpt(boardState.elements)])

\* The drawingUpdate messages handleMouseMove can put on the wire after
\* dispatching actions.  The array it passes is the one from before the
\* dispatch, but a brush DRAW_MOVE assigns points on an object that array
\* shares: whether the serialised message shows that assignment depends on
\* whether the reducer has run by the time the message is encoded.
DrawingUpdates(actions) ==
    LET ws == Writes(boardState, actions)
        seen == IF IsDef(boardState.elements)
                THEN Def(StripSeq(AssignAll(<<Val(boardState.elements)>>, ws)[1]))
                ELSE Undefined
    IN  {DrawingUpdate,
         Def([type |-> "drawingUpdate", canvasId |-> id, elements |-> seen])}

\* boardMouseDownHandler without the early return while WRITING.
boardMouseDownHandlerWhileWriting(p) ==
    IF boardState.activeToolItem = "ERASER"
    THEN <<Act("CHANGE_ACTION_TYPE", [actionType |-> "ERASING"])>>
    ELSE <<Act("DRAW_DOWN",
               [clientX |-> p[1], clientY |-> p[2], oid |-> FreshOid(1),
                stroke |-> ToolboxStyle(boardState.activeToolItem).stroke,
                fill |-> ToolboxStyle(boardState.activeToolItem).fill,
                size |-> ToolboxStyle(boardState.activeToolItem).size])>>

\* BoardProvider.boardMouseDownHandler: the actions it dispatches.
boardMouseDownHandler(p) ==
    IF boardState.toolActionType = "WRITING" THEN <<>>
    ELSE IF boardState.activeToolItem = "ERASER"
    THEN <<Act("CHANGE_ACTION_TYPE", [actionType |-> "ERASING"])>>
    ELSE <<Act("DRAW_DOWN",
               [clientX |-> p[1], clientY |-> p[2], oid |-> FreshOid(1),
                stroke |-> ToolboxStyle(boardState.activeToolItem).stroke,
                fill |-> ToolboxStyle(boardState.activeToolItem).fill,
                size |-> ToolboxStyle(boardState.activeToolItem).size])>>

\* BoardProvider.boardMouseMoveHandler.
boardMouseMoveHandler(p) ==
    IF boardState.toolActionType = "WRITING" THEN <<>>
    ELSE IF boardState.toolActionType = "DRAWING"
    THEN <<Act("DRAW_MOVE", [clientX |-> p[1], clientY |-> p[2], oid |-> FreshOid(1)])>>
    ELSE IF boardState.toolActionType = "ERASING"
    THEN <<Act("ERASE", [clientX |-> p[1], clientY |-> p[2]])>>
    ELSE <<>>

\* boardMouseUpHandler without the early return while WRITING.
boardMouseUpHandlerWhileWriting ==
    (IF boardState.toolActionType = "DRAWING"
     THEN <<Act("DRAW_UP", NoPayload)>> ELSE <<>>)
    \o <<Act("CHANGE_ACTION_TYPE", [actionType |-> "NONE"])>>

\* BoardProvider.boardMouseUpHandler.
boardMouseUpHandler ==
    IF boardState.toolActionType = "WRITING" THEN <<>>
    ELSE (IF boardState.toolActionType = "DRAWING"
          THEN <<Act("DRAW_UP", NoPayload)>> ELSE <<>>)
         \o <<Act("CHANGE_ACTION_TYPE", [actionType |-> "NONE"])>>

\* Model bounds: at most MaxDrawn elements are drawn, and brush points and
\* the history cursor stay within MaxPoints and MaxHistory.
WithinBounds(actions) ==
    \A i \in 1..Len(actions) :
       LET els == Val(boardState.elements) IN
       /\ actions[i].type = "DRAW_DOWN" => drawn < MaxDrawn
       /\ actions[i].type = "DRAW_MOVE" =>
             (Len(els) > 0 /\ els[Len(els)].type = "BRUSH"
                 => Len(els[Len(els)].points) < MaxPoints)
       /\ actions[i].type \in {"DRAW_UP", "ERASE", "CHANGE_TEXT"} =>
             boardState.index + 2 <= MaxHistory

\* handleMouseDown without the isAuthorized check.
MouseDownUngated(p) ==
    /\ Running
    /\ handler' = "MouseDown"
    /\ UNCHANGED formVars
    /\ LET actions == boardMouseDownHandler(p)
       IN  /\ WithinBounds(actions)
           /\ Run(actions, frames)
           /\ gesture' = IF Len(actions) = 1 /\ actions[1].type = "DRAW_DOWN"
                         THEN Def([history |-> StripHistory(boardState.history),
                                   index |-> boardState.index,
                                   moved |-> FALSE, up |-> FALSE])
                         ELSE Undefined
           /\ drawn' = IF Len(actions) = 1 /\ actions[1].type = "DRAW_DOWN"
                       THEN drawn + 1 ELSE drawn
    /\ sent' = NoMessage
    /\ UNCHANGED <<id, token, isAuthorized, listeners, loads, external>>

\* Board.handleMouseDown
MouseDown(p) ==
    /\ Running
    /\ handler' = "MouseDown"
    /\ UNCHANGED formVars
    /\ LET actions == IF isAuthorized THEN boardMouseDownHandler(p) ELSE <<>>
       IN  /\ WithinBounds(actions)
           /\ Run(actions, frames)
           /\ gesture' = IF Len(actions) = 1 /\ actions[1].type = "DRAW_DOWN"
                         THEN Def([history |-> StripHistory(boardState.history),
                                   index |-> boardState.index,
                                   moved |-> FALSE, up |-> FALSE])
                         ELSE Undefined
           /\ drawn' = IF Len(actions) = 1 /\ actions[1].type = "DRAW_DOWN"
                       THEN drawn + 1 ELSE drawn
    /\ sent' = NoMessage
    /\ UNCHANGED <<id, token, isAuthorized, listeners, loads, external>>

\* handleMouseMove emitting its drawingUpdate before the isAuthorized check.
MouseMoveEmitsUnchecked(p) ==
    /\ Running
    /\ handler' = "MouseMove"
    /\ UNCHANGED formVars
    /\ LET actions == IF isAuthorized THEN boardMouseMoveHandler(p) ELSE <<>>
       IN  /\ WithinBounds(actions)
           /\ Run(actions, frames)
           /\ gesture' = IF Len(actions) = 1 /\ actions[1].type = "DRAW_MOVE"
                            /\ IsDef(gesture) /\ ~Val(gesture).up
                         THEN Def([Val(gesture) EXCEPT !.moved = TRUE])
                         ELSE Undefined
           /\ sent' \in DrawingUpdates(actions)
    /\ UNCHANGED <<id, token, isAuthorized, listeners, loads, drawn, external>>

\* Board.handleMouseMove
MouseMove(p) ==
    /\ Running
    /\ handler' = "MouseMove"
    /\ UNCHANGED formVars
    /\ LET actions == IF isAuthorized THEN boardMouseMoveHandler(p) ELSE <<>>
       IN  /\ WithinBounds(actions)
           /\ Run(actions, frames)
           /\ gesture' = IF Len(actions) = 1 /\ actions[1].type = "DRAW_MOVE"
                            /\ IsDef(gesture) /\ ~Val(gesture).up
                         THEN Def([Val(gesture) EXCEPT !.moved = TRUE])
                         ELSE Undefined
           /\ sent' \in IF isAuthorized THEN DrawingUpdates(actions) ELSE {NoMessage}
    /\ UNCHANGED <<id, token, isAuthorized, listeners, loads, drawn, external>>

\* Board.handleMouseUp
MouseUp ==
    /\ Running
    /\ handler' = "MouseUp"
    /\ UNCHANGED formVars
    /\ LET actions == IF isAuthorized THEN boardMouseUpHandler ELSE <<>>
       IN  /\ WithinBounds(actions)
           /\ Run(actions, frames)
           /\ gesture' = IF Len(actions) = 2 /\ IsDef(gesture) /\ ~Val(gesture).up
                         THEN Def([Val(gesture) EXCEPT !.up = TRUE])
                         ELSE Undefined
    /\ sent' = IF isAuthorized THEN DrawingUpdate ELSE NoMessage
    /\ UNCHANGED <<id, token, isAuthorized, listeners, loads, drawn, external>>

\* Board's textarea onBlur -> textAreaBlurHandler.  The textarea exists only
\* while toolActionType is WRITING and elements is not empty.
TextAreaBlur(text) ==
    /\ Running
    /\ handler' = "TextAreaBlur"
    /\ UNCHANGED formVars
    /\ boardState.toolActionType = "WRITING"
    /\ Len(Val(boardState.elements)) > 0
    /\ LET actions == <<Act("CHANGE_TEXT", [text |-> text])>>
       IN  /\ WithinBounds(actions)
           /\ Run(actions, frames)
    /\ gesture' = Undefined
    /\ sent' = NoMessage
    /\ UNCHANGED <<id, token, isAuthorized, listeners, loads, drawn, external>>

\* Board.handleKeyDown, Ctrl+Z
KeyUndo ==
    /\ Running
    /\ handler' = "KeyUndo"
    /\ UNCHANGED formVars
    /\ Run(<<Act("UNDO", NoPayload)>>, frames)
    /\ gesture' = Undefined
    /\ sent' = NoMessage
    /\ UNCHANGED <<id, token, isAuthorized, listeners, loads, drawn, external>>

\* Board.handleKeyDown, Ctrl+Y
KeyRedo ==
    /\ Running
    /\ handler' = "KeyRedo"
    /\ UNCHANGED formVars
    /\ Run(<<Act("REDO", NoPayload)>>, frames)
    /\ gesture' = Undefined
    /\ sent' = NoMessage
    /\ UNCHANGED <<id, token, isAuthorized, listeners, loads, drawn, external>>

\* BoardProvider.changeToolHandler (toolbar click)
ChangeTool(tool) ==
    /\ Running
    /\ handler' = "ChangeTool"
    /\ UNCHANGED formVars
    /\ Run(<<Act("CHANGE_TOOL", [tool |-> tool])>>, frames)
    /\ gesture' = Undefined
    /\ sent' = NoMessage
    /\ UNCHANGED <<id, token, isAuthorized, listeners, loads, drawn, external>>

\* The receiveDrawingUpdate listener dropping snapshots once unauthorized.
ReceiveDrawingUpdateGated(snap) ==
    /\ Running
    /\ handler' = "ReceiveDrawingUpdate"
    /\ UNCHANGED formVars
    /\ external < MaxExternal
    /\ external' = external + 1
    /\ Listening("receiveDrawingUpdate")
    /\ Run(IF isAuthorized
           THEN <<Act("SET_CANVAS_ELEMENTS", [elements |-> Materialize(snap)])>>
           ELSE <<>>, frames)
    /\ gesture' = Undefined
    /\ sent' = NoMessage
    /\ UNCHANGED <<id, token, isAuthorized, listeners, loads, drawn>>

\* socket.on("receiveDrawingUpdate")
ReceiveDrawingUpdate(snap) ==
    /\ Running
    /\ handler' = "ReceiveDrawingUpdate"
    /\ UNCHANGED formVars
    /\ external < MaxExternal
    /\ external' = external + 1
    /\ Listening("receiveDrawingUpdate")
    /\ Run(<<Act("SET_CANVAS_ELEMENTS", [elements |-> Materialize(snap)])>>, frames)
    /\ gesture' = Undefined
    /\ sent' = NoMessage
    /\ UNCHANGED <<id, token, isAuthorized, listeners, loads, drawn>>

\* socket.on("loadCanvas")
LoadCanvas(snap) ==
    /\ Running
    /\ handler' = "LoadCanvas"
    /\ UNCHANGED formVars
    /\ external < MaxExternal
    /\ external' = external + 1
    /\ Listening("loadCanvas")
    /\ Run(<<Act("SET_CANVAS_ELEMENTS", [elements |-> Materialize(snap)])>>, frames)
    /\ gesture' = Undefined
    /\ sent' = NoMessage
    /\ UNCHANGED <<id, token, isAuthorized, listeners, loads, drawn>>

\* socket.on("unauthorized")
Unauthorized ==
    /\ Running
    /\ handler' = "Unauthorized"
    /\ UNCHANGED formVars
    /\ Listening("unauthorized")
    /\ isAuthorized' = FALSE
    /\ Run(<<>>, frames)
    /\ gesture' = Undefined
    /\ sent' = NoMessage
    /\ UNCHANGED <<id, token, listeners, loads, drawn, external>>

\* Board.fetchCanvasData after its await, the request for canvas c having
\* succeeded with snapshot snap: the run that issued it may be that of an
\* earlier id.
fetchCanvasDataSucceeds(c, snap) ==
    /\ Running
    /\ handler' = "LoadSucceed"
    /\ UNCHANGED formVars
    /\ c \in loads
    /\ LET data == Materialize(snap)
       IN  Run(<<Act("SET_CANVAS_ID", [canvasId |-> c]),
                 Act("SET_CANVAS_ELEMENTS", [elements |-> data]),
                 Act("SET_HISTORY", [elements |-> data])>>,
               Append(frames, data))
    /\ loads' = loads \ {c}
    /\ gesture' = Undefined
    /\ sent' = NoMessage
    /\ UNCHANGED <<id, token, isAuthorized, listeners, drawn>>

\* The load request for canvas c succeeds with snapshot snap.
LoadSucceed(c, snap) ==
    /\ external < MaxExternal
    /\ external' = external + 1
    /\ fetchCanvasDataSucceeds(c, snap)

\* LoadFail clearing the board when the request fails.
LoadFailClears(c) ==
    /\ Running
    /\ handler' = "LoadFail"
    /\ UNCHANGED formVars
    /\ external < MaxExternal
    /\ external' = external + 1
    /\ c \in loads
    /\ loads' = loads \ {c}
    /\ Run(<<Act("SET_CANVAS_ELEMENTS", [elements |-> <<>>]),
             Act("SET_HISTORY", [elements |-> <<>>])>>, frames)
    /\ gesture' = Undefined
    /\ sent' = NoMessage
    /\ UNCHANGED <<id, token, isAuthorized, listeners, drawn>>

\* Board.fetchCanvasData after its await, the request for canvas c having
\* failed (catch: log only).
fetchCanvasDataFails(c) ==
    /\ Running
    /\ handler' = "LoadFail"
    /\ UNCHANGED formVars
    /\ c \in loads
    /\ loads' = loads \ {c}
    /\ Run(<<>>, frames)
    /\ gesture' = Undefined
    /\ sent' = NoMessage
    /\ UNCHANGED <<id, token, isAuthorized, listeners, drawn>>

\* The load request for canvas c fails.
LoadFail(c) ==
    /\ external < MaxExternal
    /\ external' = external + 1
    /\ fetchCanvasDataFails(c)

\* The requestAnimationFrame callback scheduled by fetchCanvasData.
AnimationFrame ==
    /\ Running
    /\ handler' = "AnimationFrame"
    /\ UNCHANGED formVars
    /\ frames # <<>>
    /\ Run(<<Act("SET_CANVAS_ELEMENTS", [elements |-> Head(frames)])>>, Tail(frames))
    /\ gesture' = Undefined
    /\ sent' = NoMessage
    /\ UNCHANGED <<id, token, isAuthorized, listeners, loads, drawn, external>>

\* A canvas switch that re-creates the Board's isAuthorized state.
CanvasClickReauthorizes(c) ==
    /\ Running
    /\ handler' = "CanvasClick"
    /\ UNCHANGED formVars
    /\ external < MaxExternal
    /\ external' = external + 1
    /\ boardState.isUserLoggedIn /\ token
    /\ Run(<<Act("SET_HISTORY", [elements |-> <<>>]),
             Act("SET_CANVAS_ID", [canvasId |-> c])>>
           \o (IF c # id THEN <<Act("SET_CANVAS_ID", [canvasId |-> c])>> ELSE <<>>),
           frames)
    /\ id' = c
    /\ listeners' = IF c # id THEN ApplyOps(listeners, SocketOps(id, c)) ELSE listeners
    /\ isAuthorized' = TRUE
    /\ sent' = IF c # id THEN JoinCanvas(c) ELSE NoMessage
    /\ loads' = IF c # id THEN loads \cup {c} ELSE loads
    /\ gesture' = Undefined
    /\ UNCHANGED <<token, drawn>>

\* Sidebar.handleCanvasClick(c) and, when the route parameter changes, the
\* Board's two effects on id (listener cleanup, join, listeners, load).
SwitchCanvas(c) ==
    /\ Running
    /\ handler' = "CanvasClick"
    /\ UNCHANGED formVars
    /\ boardState.isUserLoggedIn /\ token
    /\ Run(<<Act("SET_HISTORY", [elements |-> <<>>]),
             Act("SET_CANVAS_ID", [canvasId |-> c])>>
           \o (IF c # id THEN <<Act("SET_CANVAS_ID", [canvasId |-> c])>> ELSE <<>>),
           frames)
    /\ id' = c
    /\ listeners' = IF c # id THEN ApplyOps(listeners, SocketOps(id, c)) ELSE listeners
    /\ sent' = IF c # id THEN JoinCanvas(c) ELSE NoMessage
    /\ loads' = IF c # id THEN loads \cup {c} ELSE loads
    /\ gesture' = Undefined
    /\ UNCHANGED <<token, isAuthorized, drawn>>

\* A click on a listed canvas.
CanvasClick(c) ==
    /\ external < MaxExternal
    /\ external' = external + 1
    /\ SwitchCanvas(c)

Next ==
    \/ \E p \in DownPoints : MouseDown(p)
    \/ \E p \in MovePoints : MouseMove(p)
    \/ MouseUp
    \/ \E text \in Texts : TextAreaBlur(text)
    \/ KeyUndo
    \/ KeyRedo
    \/ \E tool \in ToolChoices : ChangeTool(tool)
    \/ \E snap \in Snapshots : ReceiveDrawingUpdate(snap)
    \/ \E snap \in Snapshots : LoadCanvas(snap)
    \/ Unauthorized
    \/ \E c \in CanvasIds, snap \in Snapshots : LoadSucceed(c, snap)
    \/ \E c \in CanvasIds : LoadFail(c)
    \/ AnimationFrame
    \/ \E c \in CanvasIds : CanvasClick(c)

Spec == Init /\ [][Next]_vars

\* ---------------------------------------------------------------- accounts
\* The Sidebar's canvas management and the Register form.  The handlers are
\* taken as callable whenever their component is mounted: each guards itself,
\* whatever the disabled attribute of its control says.

\* Model bounds: responses handled, and requests in flight at once.
MaxResponses == 3
MaxPending == 2

ShareEmails == {"", " ", "a@b.c"}
Passwords == {"pw", "pW"}
CanvasLists == {<<>>, <<"A">>, <<"A", "B">>}

\* The route parameter of the path navigate(`/${undefined}`) leads to.
TextUndefined == "'undefined'"
PathId(c) == IF c = NoId THEN TextUndefined ELSE c

\* String.prototype.trim on the share inputs.
trim(s) == IF s \in {"", " "} THEN "" ELSE s

\* What the Sidebar's current render has read.
Render == Closure(token, canvases, boardState.canvasId, id)

\* Sidebar.handleCreateCanvas up to its await, in the render c.
handleCreateCanvas(c, inner) ==
    IF ~c.token THEN {}
    ELSE {[c EXCEPT !.kind = "create", !.arg = NoId, !.inner = inner]}

\* Sidebar.handleDeleteCanvas up to its await.
handleDeleteCanvas(c, canvasToDeleteId) ==
    IF ~c.token THEN {}
    ELSE IF Len(c.canvases) = 0 THEN {}
    ELSE {[c EXCEPT !.kind = "delete", !.arg = canvasToDeleteId, !.inner = "none"]}

\* Sidebar.handleShare up to its await: the notice it sets, the request it issues.
ShareError(c, mail) ==
    IF trim(mail) = "" THEN "Please enter an email."
    ELSE IF ~c.token THEN "You must be logged in to share."
    ELSE IF Falsy(c.canvasId) THEN "No canvas selected to share."
    ELSE ""

\* handleShare testing the email without trimming it.
handleShareUntrimmed(c, mail) ==
    IF mail = "" \/ ~c.token \/ Falsy(c.canvasId) THEN {}
    ELSE {[c EXCEPT !.kind = "share", !.arg = c.canvasId, !.email = mail,
                    !.inner = "none"]}

handleShare(c, mail) ==
    IF ShareError(c, mail) # "" THEN {}
    ELSE {[c EXCEPT !.kind = "share", !.arg = c.canvasId, !.email = mail,
                    !.inner = "none"]}

\* Register.handleSubmit up to its await.
handleSubmit(pw, confirm) ==
    IF pw # confirm THEN {}
    ELSE {[Closure(token, <<>>, "", NoId) EXCEPT !.kind = "register"]}

\* Sidebar.handleCanvasClick(c): its two dispatches (navigate follows).
handleCanvasClick(c) ==
    <<Act("SET_HISTORY", [elements |-> <<>>]),
      Act("SET_CANVAS_ID", [canvasId |-> c])>>

\* A handler that neither dispatches nor navigates.
NoActions == <<>>
Stay == Undefined

\* setCanvasId(c) followed by handleCanvasClick(c).
Select(c) == <<Act("SET_CANVAS_ID", [canvasId |-> c])>> \o handleCanvasClick(c)

\* One handler or continuation: it finishes the requests done, issues those
\* of new, dispatches actions and, when target is defined, navigates to that
\* canvas path; cs, mail and notice are the Sidebar's canvases, email and
\* error once its setState calls are applied.  Navigating changes the
\* Board's id (its effects on id run) or, from another page, mounts the home
\* page afresh.
Step(name, done, new, actions, target, cs, mail, notice) ==
    \E nav \in {IsDef(target)} :
    \E t \in {IF nav THEN PathId(Val(target)) ELSE id} :
    \E moves \in {nav /\ ~(route = "home" /\ t = id)} :
    \E remount \in {nav /\ route # "home"} :
    \E after \in {Val(Dispatch(boardState, actions))} :
    \E issued \in {new \cup (IF remount /\ after.isUserLoggedIn
                              THEN fetchCanvases(Closure(token, <<>>, after.canvasId, t))
                              ELSE {})} :
        /\ Running
        /\ handler' = name
        /\ \E all \in {actions \o (IF moves
                                     THEN <<Act("SET_CANVAS_ID", [canvasId |-> t])>>
                                     ELSE <<>>)} : Run(all, frames)
        /\ requests' = {Request(q.kind, q.arg, q.email) :
                           q \in {x \in issued : x.kind # "resume"}}
        /\ pending' = (pending \ done) \cup issued
        /\ Cardinality(pending') <= MaxPending
        /\ route' = IF nav THEN "home" ELSE route
        /\ id' = t
        /\ listeners' = IF ~moves THEN listeners
                        ELSE IF remount THEN ApplyOps(NoListeners, SocketOps(NoId, t))
                        ELSE ApplyOps(listeners, SocketOps(id, t))
        /\ sent' = IF moves THEN JoinCanvas(t) ELSE NoMessage
        /\ loads' = IF moves /\ token THEN loads \cup {t} ELSE loads
        /\ isAuthorized' = IF remount THEN TRUE ELSE isAuthorized
        /\ canvases' = IF remount THEN <<>> ELSE cs
        /\ email' = IF remount THEN "" ELSE mail
        /\ error' = IF remount THEN "" ELSE notice
        /\ gesture' = Undefined
        /\ UNCHANGED <<token, drawn>>

Quiet(name, new) ==
    Step(name, {}, new, NoActions, Stay, canvases, email, error)

\* Sidebar's email input onChange.
SetEmail(mail) ==
    /\ route = "home"
    /\ Step("SetEmail", {}, {}, NoActions, Stay, canvases, mail, error)
    /\ UNCHANGED <<external, password, confirmPassword>>

\* The Share button.
Share ==
    /\ route = "home"
    /\ \E new \in {handleShare(Render, email)} :
       \E notice \in {ShareError(Render, email)} :
          Step("Share", {}, new, NoActions, Stay, canvases, email, notice)
    /\ UNCHANGED <<external, password, confirmPassword>>

\* The Create New Canvas button.
CreateCanvas ==
    /\ route = "home"
    /\ \E new \in {handleCreateCanvas(Render, "none")} : Quiet("CreateCanvas", new)
    /\ UNCHANGED <<external, password, confirmPassword>>

\* The del button of a listed canvas.
DeleteCanvas(c) ==
    /\ route = "home"
    /\ \E i \in 1..Len(canvases) : canvases[i] = c
    /\ \E new \in {handleDeleteCanvas(Render, c)} : Quiet("DeleteCanvas", new)
    /\ UNCHANGED <<external, password, confirmPassword>>

\* Sidebar.handleLogout (the button is rendered only while logged in): the
\* token is removed and the home page is left, so the Board's cleanup runs
\* and the requests in flight lose their component.
Logout ==
    /\ Running
    /\ route = "home"
    /\ boardState.isUserLoggedIn
    /\ handler' = "Logout"
    /\ token' = FALSE
    /\ Run(<<Act("SET_USER_LOGIN_STATUS", [isUserLoggedIn |-> FALSE])>>, frames)
    /\ route' = "login"
    /\ id' = NoId
    /\ listeners' = ApplyOps(listeners, SocketOps(id, NoId))
    /\ sent' = NoMessage
    /\ canvases' = <<>> /\ email' = "" /\ error' = ""
    /\ requests' = {}
    /\ pending' = {[q EXCEPT !.orphan = TRUE] : q \in pending}
    /\ gesture' = Undefined
    /\ UNCHANGED <<isAuthorized, loads, drawn, external, password, confirmPassword>>

\* The continuation of fetchCanvases once GET /api/canvas/list has answered:
\* with no canvas it creates one, with no canvas selected and no id in the
\* URL it selects the first.
ListResponds(ok, data) ==
    \E p \in {q \in pending : q.kind = "list"} :
    \E cs \in {IF p.orphan \/ ~ok THEN canvases ELSE data} :
    \E creates \in {ok /\ Len(data) = 0} :
    \E selects \in {ok /\ Len(data) > 0 /\ Falsy(p.canvasId) /\ p.id = NoId} :
    \E new \in {IF creates THEN handleCreateCanvas(p, "list") ELSE {}} :
    \E actions \in {IF selects THEN Select(data[1]) ELSE NoActions} :
    \E target \in {IF selects THEN Def(data[1]) ELSE Stay} :
        /\ external < MaxResponses
        /\ external' = external + 1
        /\ Step("ListResponds", {p}, new, actions, target, cs, email, error)
        /\ UNCHANGED <<password, confirmPassword>>

\* The continuation of handleCreateCanvas once POST /api/canvas/create has
\* answered with canvas c; a caller awaiting it (fetchCanvases) resumes later.
CreateResponds(ok, c) ==
    \E p \in {q \in pending : q.kind = "create"} :
    \E resumes \in {IF ok /\ p.inner = "list"
                    THEN {[p EXCEPT !.kind = "resume", !.arg = c]} ELSE {}} :
    \E new \in {IF ok THEN fetchCanvases(p) \cup resumes ELSE {}} :
    \E actions \in {IF ok THEN Select(c) ELSE NoActions} :
    \E target \in {IF ok THEN Def(c) ELSE Stay} :
        /\ external < MaxResponses
        /\ external' = external + 1
        /\ Step("CreateResponds", {p}, new, actions, target, canvases, email, error)
        /\ UNCHANGED <<password, confirmPassword>>

\* fetchCanvases resumes after its awaited handleCreateCanvas returned the
\* response data: it selects newCanvas._id, which the response may lack.
FetchCanvasesResumes(hasId) ==
    \E p \in {q \in pending : q.kind = "resume"} :
    \E newId \in {IF hasId THEN p.arg ELSE NoId} :
    \E actions \in {Select(newId)} :
    \E target \in {Def(newId)} :
        /\ Step("FetchCanvasesResumes", {p}, {}, actions, target, canvases, email, error)
        /\ UNCHANGED <<external, password, confirmPassword>>

\* The canvas handleDeleteCanvas selects after deleting one of several.
NewSelected(cs, deleted) ==
    IF \E i \in 1..Len(cs) : cs[i] # deleted
    THEN cs[CHOOSE i \in 1..Len(cs) :
               cs[i] # deleted /\ \A j \in 1..(i - 1) : cs[j] = deleted]
    ELSE cs[1]

\* The continuation of handleDeleteCanvas once DELETE has answered: it
\* selects another listed canvas, or creates one when none is left.
DeleteResponds(ok) ==
    \E p \in {q \in pending : q.kind = "delete"} :
    \E selects \in {ok /\ Len(p.canvases) > 1} :
    \E c \in {NewSelected(p.canvases, p.arg)} :
    \E creates \in {IF ok /\ ~selects THEN handleCreateCanvas(p, "none") ELSE {}} :
    \E new \in {IF ok THEN fetchCanvases(p) \cup creates ELSE {}} :
    \E actions \in {IF selects THEN Select(c) ELSE NoActions} :
    \E target \in {IF selects THEN Def(c) ELSE Stay} :
        /\ external < MaxResponses
        /\ external' = external + 1
        /\ Step("DeleteResponds", {p}, new, actions, target, canvases, email, error)
        /\ UNCHANGED <<password, confirmPassword>>

\* The continuation of handleShare once PUT /api/canvas/share has answered.
ShareResponds(ok) ==
    \E p \in {q \in pending : q.kind = "share"} :
    \E notice \in {IF ok \/ p.orphan THEN error ELSE "Failed to share canvas."} :
        /\ external < MaxResponses
        /\ external' = external + 1
        /\ Step("ShareResponds", {p}, {}, NoActions, Stay, canvases, email, notice)
        /\ UNCHANGED <<password, confirmPassword>>

\* The timer handleShare's catch sets clears the notice.
NoticeTimeout ==
    /\ route = "home"
    /\ error = "Failed to share canvas."
    /\ Step("NoticeTimeout", {}, {}, NoActions, Stay, canvases, email, "")
    /\ UNCHANGED <<external, password, confirmPassword>>

\* Register's password inputs.
SetPassword(pw) ==
    /\ route = "register"
    /\ Quiet("SetPassword", {})
    /\ password' = pw
    /\ UNCHANGED <<external, confirmPassword>>

SetConfirmPassword(pw) ==
    /\ route = "register"
    /\ Quiet("SetConfirmPassword", {})
    /\ confirmPassword' = pw
    /\ UNCHANGED <<external, password>>

\* Register's form is submitted (its inputs are required).
Submit ==
    /\ route = "register"
    /\ password # "" /\ confirmPassword # ""
    /\ \E new \in {handleSubmit(password, confirmPassword)} : Quiet("Submit", new)
    /\ UNCHANGED <<external, password, confirmPassword>>

\* The continuation of Register.handleSubmit: on success it navigates to the
\* login page, which unmounts the form.
RegisterResponds(ok) ==
    \E p \in {q \in pending : q.kind = "register"} :
        /\ route = "register"
        /\ external < MaxResponses
        /\ external' = external + 1
        /\ Running
        /\ handler' = "RegisterResponds"
        /\ Run(NoActions, frames)
        /\ requests' = {}
        /\ pending' = pending \ {p}
        /\ route' = IF ok THEN "login" ELSE route
        /\ password' = IF ok THEN "" ELSE password
        /\ confirmPassword' = IF ok THEN "" ELSE confirmPassword
        /\ sent' = NoMessage
        /\ gesture' = Undefined
        /\ UNCHANGED <<id, token, isAuthorized, listeners, loads, drawn,
                       email, error, canvases>>

\* The application opened on the home page or on the registration page, with
\* or without a stored token.
AccountInit ==
    /\ token \in BOOLEAN
    /\ route \in {"home", "register"}
    /\ id \in IF route = "home" THEN {"A", NoId} ELSE {NoId}
    /\ Booted
    /\ IF route = "home" THEN SidebarMounted
       ELSE /\ email = "" /\ error = "" /\ canvases = <<>>
            /\ requests = {} /\ pending = {}

AccountNext ==
    \/ \E mail \in ShareEmails : SetEmail(mail)
    \/ Share
    \/ CreateCanvas
    \/ \E c \in CanvasIds : DeleteCanvas(c)
    \/ Logout
    \/ \E ok \in BOOLEAN, data \in CanvasLists : ListResponds(ok, data)
    \/ \E ok \in BOOLEAN, c \in CanvasIds : CreateResponds(ok, c)
    \/ \E hasId \in BOOLEAN : FetchCanvasesResumes(hasId)
    \/ \E ok \in BOOLEAN : DeleteResponds(ok)
    \/ \E ok \in BOOLEAN : ShareResponds(ok)
    \/ NoticeTimeout
    \/ \E pw \in Passwords : SetPassword(pw)
    \/ \E pw \in Passwords : SetConfirmPassword(pw)
    \/ Submit
    \/ \E ok \in BOOLEAN : RegisterResponds(ok)

AccountSpec == AccountInit /\ [][AccountNext]_vars

\* ------------------------------------------------------------------- loads
\* Canvas switches with load requests in flight: the Board's handlers of Spec
\* with room for a switch and the responses of both loads.
MaxLoadEvents == 3

Switch(c) ==
    /\ external < MaxLoadEvents
    /\ external' = external + 1
    /\ SwitchCanvas(c)

Loaded(c, snap) ==
    /\ external < MaxLoadEvents
    /\ external' = external + 1
    /\ fetchCanvasDataSucceeds(c, snap)

LoadFailed(c) ==
    /\ external < MaxLoadEvents
    /\ external' = external + 1
    /\ fetchCanvasDataFails(c)

LoadNext ==
    \/ \E c \in CanvasIds : Switch(c)
    \/ \E c \in CanvasIds, snap \in Snapshots : Loaded(c, snap)
    \/ \E c \in CanvasIds : LoadFailed(c)
    \/ AnimationFrame
    \/ \E p \in DownPoints : MouseDown(p)
    \/ MouseUp

LoadSpec == Init /\ [][LoadNext]_vars

\* ------------------------------------------------------------------ claims
history == boardState.history
index == boardState.index
elements == boardState.elements

Committing == {"DRAW_UP", "ERASE", "CHANGE_TEXT"}
Dispatched(type) == \E i \in 1..Len(ev) : ev[i] = type
Applied == status # "reducerThrew"

\* C1: in every reachable state 0 <= index < history.length.
C1_IndexInRange == 0 <= index /\ index < Len(history)

\* C2: immediately after a committing action (DRAW_UP, ERASE, CHANGE_TEXT)
\* history[index] exists and is structurally equal to the live elements.
C2_CommitSnapshotIsLive ==
    (Applied /\ \E t \in Committing : Dispatched(t))
       => /\ IsDef(At(history, index))
          /\ StripOpt(At(history, index)) = StripOpt(elements)

\* C3: a committing action discards the redo branch: afterwards the cursor is
\* on the last history entry (index = history.length - 1), so REDO is a no-op.
C3_CommitLeavesNoRedo ==
    (Applied /\ \E t \in Committing : Dispatched(t)) => index = Len(history) - 1

\* C4: a pointer gesture with a shape or brush tool (mouse-down, any number
\* of mouse-moves, mouse-up, nothing in between) leaves history and index
\* alone until the mouse-up, which appends exactly one entry after the
\* entries 0..index and advances index by one; DRAW_UP is dispatched only
\* when the action type is DRAWING.
DrawingTools == ShapeTypes \cup {"BRUSH"}
GestureInProgress == IsDef(gesture) /\ ~Val(gesture).up
C4_GestureCommitsOnce ==
    [][/\ (\E p \in MovePoints : MouseMove(p)) /\ GestureInProgress
            /\ boardState.activeToolItem \in DrawingTools
          => /\ ev' = <<"DRAW_MOVE">>
             /\ IsDef(gesture')
             /\ StripHistory(history') = Val(gesture).history
             /\ index' = Val(gesture).index
       /\ MouseUp /\ GestureInProgress /\ boardState.activeToolItem \in DrawingTools
          => /\ ev' = <<"DRAW_UP", "CHANGE_ACTION_TYPE">>
             /\ StripHistory(history')
                  = Append(Slice0(Val(gesture).history, Val(gesture).index + 1),
                           StripSeq(Val(elements')))
             /\ StripOpt(elements') = StripOpt(elements)
             /\ index' = Val(gesture).index + 1
       /\ (\E i \in 1..Len(ev') : ev'[i] = "DRAW_UP")
          => boardState.toolActionType = "DRAWING"
      ]_vars

\* A finished gesture with at least one move, started with a redo branch.
C4_Witness ==
    /\ IsDef(gesture) /\ Val(gesture).up
    /\ ev = <<"DRAW_UP", "CHANGE_ACTION_TYPE">> /\ Running
    /\ Len(Val(gesture).history) > Val(gesture).index + 1
    /\ index = Val(gesture).index + 1
    /\ Val(elements)[Len(Val(elements))].x2 = 50

\* C5: UNDO at index = 0 and REDO at index = history.length - 1 leave the
\* whole board state unchanged.
C5_UndoRedoAtEndsAreNoOps ==
    [][/\ (KeyUndo /\ index = 0) => boardState' = boardState
       /\ (KeyRedo /\ index = Len(history) - 1) => boardState' = boardState
      ]_vars

\* UNDO ran at index 0: the live elements are not history[0], which an
\* effective UNDO would have installed.
C5_Witness ==
    /\ ev = <<"UNDO">> /\ index = 0 /\ Running
    /\ StripOpt(elements) # StripOpt(At(history, 0))

\* C6: with index > 0 UNDO installs history[index-1] and decrements index,
\* with index < history.length - 1 REDO installs history[index+1] and
\* increments index, neither changes history, and the elements installed
\* are always a defined snapshot.
C6_UndoRedoInstallSnapshot ==
    [][/\ (KeyUndo /\ index > 0)
          => /\ IsDef(elements')
             /\ StripOpt(elements') = StripOpt(At(history, index - 1))
             /\ index' = index - 1
             /\ StripHistory(history') = StripHistory(history)
       /\ (KeyRedo /\ index < Len(history) - 1)
          => /\ IsDef(elements')
             /\ StripOpt(elements') = StripOpt(At(history, index + 1))
             /\ index' = index + 1
             /\ StripHistory(history') = StripHistory(history)
      ]_vars

\* C7: ERASE(x, y) keeps exactly the elements the hit test rejects, in their
\* order, and commits one history entry (index advances by one) whether or
\* not an element was removed.
Kept(old, p) == {i \in 1..Len(old) : ~isPointNearElement(old[i], p[1], p[2])}
C7_EraseFiltersAndCommits ==
    [][\A p \in MovePoints :
         (MouseMove(p) /\ isAuthorized /\ boardState.toolActionType = "ERASING")
            => LET old == StripSeq(Val(elements))
                   new == StripSeq(Val(elements'))
                   kept == Kept(old, p)
               IN  /\ ev' = <<"ERASE">>
                   /\ Len(new) = Cardinality(kept)
                   /\ \A i \in kept : new[Cardinality({j \in kept : j <= i})] = old[i]
                   /\ StripHistory(history')
                        = Append(Slice0(StripHistory(history), index + 1), new)
                   /\ index' = index + 1
      ]_vars

\* An ERASE that removed nothing from a non-empty board and still committed.
C7_Witness ==
    /\ ev = <<"ERASE">> /\ Running /\ index >= 1
    /\ Len(Val(elements)) >= 1
    /\ StripOpt(elements) = StripOpt(At(history, index - 1))
    /\ StripOpt(elements) = StripOpt(At(history, index))

\* C8: after SET_HISTORY(E) history is the one-entry sequence [E] and index
\* is 0.
C8_SetHistoryResetsCursor ==
    (Applied /\ Dispatched("SET_HISTORY")) => Len(history) = 1 /\ index = 0

C10_SetElementsBypassesHistory ==
    [][\A snap \in Snapshots :
         (ReceiveDrawingUpdate(snap) \/ LoadCanvas(snap))
            => /\ StripOpt(elements') = Def(snap)
               /\ StripHistory(history') = StripHistory(history)
               /\ index' = index
               /\ boardState'.activeToolItem = boardState.activeToolItem
               /\ boardState'.toolActionType = boardState.toolActionType
               /\ boardState'.canvasId = boardState.canvasId
      ]_vars

\* A remote snapshot was admitted on a board with local undo steps.
C10_Witness ==
    /\ ev = <<"SET_CANVAS_ELEMENTS">> /\ Running /\ external = 1
    /\ frames = <<>> /\ loads = {"A"}
    /\ index >= 1 /\ Len(history) = index + 1
    /\ Len(Val(elements)) = 2
    /\ StripOpt(elements) # StripOpt(At(history, index))

PointerEvent ==
    \/ \E p \in DownPoints : MouseDown(p)
    \/ \E p \in MovePoints : MouseMove(p)
    \/ MouseUp

\* C11: once an unauthorized message has been received, every mouse-down,
\* mouse-move and mouse-up is rejected: it dispatches nothing (no DRAW_DOWN,
\* DRAW_MOVE, DRAW_UP or ERASE) and leaves the board state unchanged.
C11_DeniedPointerEventsRejected ==
    [][(~isAuthorized /\ PointerEvent)
          => /\ ev' = <<>>
             /\ boardState' = boardState
      ]_vars

\* A pointer event handled after the denial arrived in the middle of a
\* drawing gesture.
C11_Witness ==
    /\ ~isAuthorized /\ Running
    /\ handler \in {"MouseDown", "MouseMove", "MouseUp"}
    /\ boardState.toolActionType = "DRAWING"
    /\ Len(Val(elements)) = 1

\* C12: once an unauthorized message has been received, a textarea blur does
\* not apply CHANGE_TEXT, also when the denial arrived while the action type
\* was WRITING: elements, history and index stay unchanged.
C12_DeniedTextCommitRejected ==
    [][(~isAuthorized /\ \E text \in Texts : TextAreaBlur(text))
          => /\ \A i \in 1..Len(ev') : ev'[i] # "CHANGE_TEXT"
             /\ StripOpt(elements') = StripOpt(elements)
             /\ StripHistory(history') = StripHistory(history)
             /\ index' = index
      ]_vars

\* C13: once an unauthorized message has been received, the listeners stay
\* registered and every later loadCanvas or receiveDrawingUpdate snapshot is
\* admitted: elements becomes exactly the received snapshot.
C13_DeniedStillAdmitsSnapshots ==
    [][/\ Unauthorized => \A name \in ListenerEvents : listeners'[name] > 0
       /\ \A snap \in Snapshots :
            (~isAuthorized /\ (ReceiveDrawingUpdate(snap) \/ LoadCanvas(snap)))
               => StripOpt(elements') = Def(snap)
      ]_vars

\* A non-empty snapshot admitted after the denial.
C13_Witness ==
    /\ ~isAuthorized /\ Running
    /\ handler \in {"ReceiveDrawingUpdate", "LoadCanvas"}
    /\ Len(Val(elements)) = 2

\* C14: the authorized flag is true as long as no handler has run, and once
\* false it is never set back to true by any later event.
C14_DenialIsOneWay ==
    [][/\ handler = "mount" => isAuthorized
       /\ ~isAuthorized => ~isAuthorized'
      ]_vars

\* The flag is still false after a later load completion.
C14_Witness ==
    /\ ~isAuthorized /\ handler = "LoadSucceed" /\ Running

IsDrawingUpdate(msg) == IsDef(msg) /\ Val(msg).type = "drawingUpdate"

\* C15: the drawingUpdate emitted on a mouse-move or mouse-up while drawing
\* carries the elements as they are after that event's action was applied,
\* tagged with the id of the joined canvas.
C15_UpdateCarriesCurrentElements ==
    (/\ handler \in {"MouseMove", "MouseUp"} /\ Applied
     /\ (Dispatched("DRAW_MOVE") \/ Dispatched("DRAW_UP")))
       => /\ IsDrawingUpdate(sent)
          /\ Val(sent).canvasId = id
          /\ Val(sent).elements = StripOpt(elements)

\* C16: a drawingUpdate is emitted only by a mouse-move or mouse-up handled
\* while the action type is DRAWING.
C16_UpdateOnlyWhileDrawing ==
    [][IsDrawingUpdate(sent')
          => /\ handler' \in {"MouseMove", "MouseUp"}
             /\ boardState.toolActionType = "DRAWING"
      ]_vars

\* Session A has just finished mouse-down(10,10), mouse-move(50,50),
\* mouse-up with the RECTANGLE tool.
FinishedRectangle ==
    [index |-> 0, type |-> "RECTANGLE", x1 |-> 10, y1 |-> 10, x2 |-> 50, y2 |-> 50,
     stroke |-> "black", fill |-> "null", size |-> 2, points |-> <<>>, text |-> ""]
ScenarioADone ==
    /\ handler = "MouseUp" /\ Applied
    /\ IsDef(gesture) /\ Val(gesture).up
    /\ boardState.activeToolItem = "RECTANGLE"
    /\ StripOpt(elements) = Def(<<FinishedRectangle>>)

\* The states of a session B that admits A's message: a fresh board on the
\* same canvas, and a board that already shows elements.
PeerStates ==
    {[initialBoardState(TRUE) EXCEPT !.canvasId = id], boardState}

\* Session B's elements once its receiveDrawingUpdate listener has admitted msg.
PeerAdmits(b, msg) ==
    LET r == Dispatch(b, <<Act("SET_CANVAS_ELEMENTS",
                               [elements |-> Materialize(Val(Val(msg).elements))])>>)
    IN  IF IsDef(r) THEN StripOpt(Val(r).elements) ELSE Undefined

\* C17: scenario B.  When A has finished the rectangle gesture its client has
\* emitted a drawingUpdate for the joined canvas that holds the finished
\* rectangle; a session B that admits it then holds elements structurally
\* identical to the emitted snapshot and to A's final elements.
C17_ScenarioB ==
    ScenarioADone
       => /\ IsDrawingUpdate(sent)
          /\ Val(sent).canvasId = id
          /\ Val(sent).elements = Def(<<FinishedRectangle>>)
          /\ \A b \in PeerStates :
                /\ PeerAdmits(b, sent) = Val(sent).elements
                /\ PeerAdmits(b, sent) = StripOpt(elements)

\* A has finished the rectangle on a joined canvas and emitted its update.
C17_Witness ==
    /\ ScenarioADone /\ Running /\ id = "A" /\ IsDrawingUpdate(sent)
    /\ index = 1

\* The listener counts after the first k socket calls of a canvas switch.
ListenersAfter(ops, k) == ApplyOps(listeners, SubSeq(ops, 1, k))

\* C18: when the selected canvas changes from one id to another, the three
\* listeners registered for the old canvas are removed before joinCanvas for
\* the new one is emitted, and at every moment, also between the socket
\* calls of the switch, at most one listener per event name is registered.
C18_SwitchDetachesBeforeJoin ==
    [][/\ \A name \in ListenerEvents : listeners[name] <= 1 /\ listeners'[name] <= 1
       /\ \A c \in CanvasIds :
            (CanvasClick(c) /\ id # NoId /\ c # id)
               => LET ops == SocketOps(id, c)
                  IN  /\ \E j \in 1..Len(ops) :
                           /\ ops[j] = Emit("joinCanvas", c)
                           /\ \A name \in ListenerEvents :
                                 /\ \E i \in 1..(j - 1) : ops[i] = Off(name)
                                 /\ ListenersAfter(ops, j - 1)[name] = 0
                      /\ \A k \in 0..Len(ops), name \in ListenerEvents :
                           ListenersAfter(ops, k)[name] <= 1
                      /\ listeners' = ListenersAfter(ops, Len(ops))
                      /\ sent' = JoinCanvas(c)
      ]_vars

\* The client has switched from canvas A to canvas B and listens again.
C18_Witness ==
    /\ handler = "CanvasClick" /\ id = "B" /\ Running
    /\ sent = JoinCanvas("B")
    /\ \A name \in ListenerEvents : listeners[name] = 1
    /\ "A" \in loads

\* A snapshot was just admitted while a draw gesture was between its
\* mouse-down and its mouse-up.
AdmittedMidGesture ==
    /\ handler \in {"ReceiveDrawingUpdate", "LoadCanvas"}
    /\ boardState.toolActionType = "DRAWING"

\* C19: a snapshot S admitted between a local DRAW_DOWN and its DRAW_UP
\* replaces elements by exactly S and leaves history and index unchanged, and
\* the gesture's next mouse-move or mouse-up alters no element that came
\* from S.
C19_MidGestureSnapshotSurvives ==
    [][/\ \A snap \in Snapshots :
            (GestureInProgress /\ (ReceiveDrawingUpdate(snap) \/ LoadCanvas(snap)))
               => /\ StripOpt(elements') = Def(snap)
                  /\ StripHistory(history') = StripHistory(history)
                  /\ index' = index
       /\ (AdmittedMidGesture /\ ((\E p \in MovePoints : MouseMove(p)) \/ MouseUp))
            => /\ status' # "reducerThrew"
               /\ IsDef(elements')
               /\ Len(Val(elements')) >= Len(Val(elements))
               /\ \A i \in 1..Len(Val(elements)) :
                     Strip(Val(elements')[i]) = Strip(Val(elements)[i])
      ]_vars

\* C20: no dispatched action throws: DRAW_MOVE is dispatched only when
\* elements is non-empty and its last element is a shape or brush element,
\* CHANGE_TEXT only when the last element exists and is a TEXT element.
LastType == IF IsDef(elements) /\ Len(Val(elements)) > 0
            THEN Val(elements)[Len(Val(elements))].type ELSE "none"
C20_NoDispatchThrows ==
    [][/\ status' # "reducerThrew"
       /\ (\E i \in 1..Len(ev') : ev'[i] = "DRAW_MOVE") => LastType \in DrawingTools
       /\ (\E i \in 1..Len(ev') : ev'[i] = "CHANGE_TEXT") => LastType = "TEXT"
      ]_vars

\* ---- C21
Grew == /\ IsDef(elements) /\ IsDef(elements')
        /\ Len(Val(elements')) > Len(Val(elements))
Shrank == /\ IsDef(elements) /\ IsDef(elements')
          /\ Len(Val(elements')) < Len(Val(elements))
DispatchedNext(types) == \E i \in 1..Len(ev') : ev'[i] \in types
Installing == {"UNDO", "REDO", "SET_CANVAS_ELEMENTS"}

\* C21 as stated: elements.length is greater after an action than before only
\* if the action is DRAW_DOWN, and smaller only if the action is ERASE.
C21_LengthOnlyByDrawDownAndErase ==
    [][/\ Grew => DispatchedNext({"DRAW_DOWN"})
       /\ Shrank => DispatchedNext({"ERASE"})]_vars

\* C21: elements.length is greater after an action than before only if the
\* action is DRAW_DOWN or one that installs a whole sequence (UNDO, REDO,
\* SET_ELEMENTS), and smaller only if it is ERASE or one of those three.
C21_LengthChangesOnlyByDrawEraseInstall ==
    [][/\ Grew => DispatchedNext({"DRAW_DOWN"} \cup Installing)
       /\ Shrank => DispatchedNext({"ERASE"} \cup Installing)]_vars
C21_Witness ==
    /\ handler = "KeyUndo" /\ ev = <<"UNDO">> /\ IsDef(elements)
    /\ index + 2 <= Len(history)
    /\ Len(Val(elements)) < Len(history[index + 2])

\* ---- C22
NonCommitting == {"DRAW_DOWN", "DRAW_MOVE", "CHANGE_TOOL", "CHANGE_ACTION_TYPE"}
LeavesElements == {"CHANGE_TOOL", "CHANGE_ACTION_TYPE"}
AfterSetCanvasId(c) == Val(ReduceSetCanvasId(boardState, [canvasId |-> c]))

\* C22: DRAW_DOWN, DRAW_MOVE, CHANGE_TOOL, CHANGE_ACTION_TYPE and
\* SET_CANVAS_ID leave index and history (its length and the contents of
\* every entry) unchanged; CHANGE_TOOL, CHANGE_ACTION_TYPE and SET_CANVAS_ID
\* leave elements unchanged as well.
C22_NonCommittingKeepHistory ==
    [][/\ (Len(ev') = 1 /\ ev'[1] \in NonCommitting) =>
             /\ index' = index
             /\ StripHistory(history') = StripHistory(history)
       /\ (Len(ev') = 1 /\ ev'[1] \in LeavesElements) =>
             StripOpt(elements') = StripOpt(elements)
       /\ \A c \in CanvasIds :
             /\ AfterSetCanvasId(c).index = index
             /\ StripHistory(AfterSetCanvasId(c).history) = StripHistory(history)
             /\ StripOpt(AfterSetCanvasId(c).elements) = StripOpt(elements)
      ]_vars

\* ---- C23
\* C23: whenever the user switches to another canvas the board is reset
\* before any content of the new canvas is admitted: elements is the empty
\* sequence, history is [[]] and index is 0.
C23_SwitchResetsBoard ==
    [][\A c \in CanvasIds :
          (CanvasClick(c) /\ c # id) =>
             /\ elements' = Def(<<>>)
             /\ history' = << <<>> >>
             /\ index' = 0
      ]_vars

\* ---- C24
ScenarioAFromInitial ==
    /\ handler = "MouseUp" /\ IsDef(gesture)
    /\ Val(gesture).up /\ Val(gesture).moved
    /\ Val(gesture).history = << <<>> >> /\ Val(gesture).index = 0
    /\ boardState.activeToolItem = "RECTANGLE"
    /\ IsDef(elements) /\ Len(Val(elements)) = 1

\* C24: Scenario A.  From the initial state with the RECTANGLE tool, a
\* mouse-down at (10,10), a move to (50,50) and a mouse-up leave exactly one
\* RECTANGLE element (10,10)-(50,50), stroke black, size 2, with
\* history = [[], [that element]] and index = 1.
C24_ScenarioA ==
    ScenarioAFromInitial =>
        /\ StripSeq(Val(elements)) = <<FinishedRectangle>>
        /\ StripHistory(history) = << <<>>, <<FinishedRectangle>> >>
        /\ index = 1
C24_Witness == ScenarioAFromInitial /\ boardState.toolActionType = "NONE"

\* ---- C25
\* C25: a snapshot stored in history is never changed by a later action:
\* unless SET_HISTORY replaces history, every entry after an action is the
\* entry that was in that position before, or the snapshot a committing
\* action has just appended; a brush DRAW_MOVE or a CHANGE_TEXT modifies no
\* stored entry.
C25_StoredSnapshotsImmutable ==
    [][~DispatchedNext({"SET_HISTORY"}) =>
          \A i \in 1..Len(history') :
             \/ /\ i <= Len(history)
                /\ StripSeq(history'[i]) = StripSeq(history[i])
             \/ /\ i = Len(history')
                /\ DispatchedNext(Committing)
      ]_vars

\* ---- C26
\* C26: in every reachable state each element's index field equals its
\* (0-based) position in elements, so the index values are pairwise distinct.
C26_IndexIsPosition ==
    IsDef(elements) =>
       \A i \in 1..Len(Val(elements)) : Val(elements)[i].index = i - 1

\* ---- C27
\* C27: a failed canvas load leaves the board in its prior state (elements,
\* history, index and canvasId unchanged, nothing dispatched or scheduled)
\* and is not retried: the request is no longer outstanding and no other
\* request is issued.
C27_FailedLoadLeavesBoard ==
    [][\A c \in CanvasIds :
          LoadFail(c) =>
             /\ StripOpt(elements') = StripOpt(elements)
             /\ StripHistory(history') = StripHistory(history)
             /\ index' = index
             /\ boardState'.canvasId = boardState.canvasId
             /\ ev' = <<>> /\ Len(frames') = Len(frames)
             /\ loads' = loads \ {c}
             /\ sent' = NoMessage
      ]_vars
C27_Witness ==
    /\ handler = "LoadFail" /\ loads = {}
    /\ IsDef(elements) /\ Len(Val(elements)) > 0 /\ index > 0

\* ---- C30
ZeroSizeElement(tool, p, position) ==
    Strip(createElement(0, position, p[1], p[2], p[1], p[2],
             [type |-> tool, stroke |-> ToolboxStyle(tool).stroke,
              fill |-> ToolboxStyle(tool).fill, size |-> ToolboxStyle(tool).size]))
AppendsOne(p) ==
    LET before == StripSeq(Val(elements))
        after == StripSeq(Val(elements'))
    IN  /\ Len(after) = Len(before) + 1
        /\ SubSeq(after, 1, Len(before)) = before
        /\ after[Len(after)] =
              ZeroSizeElement(boardState.activeToolItem, p, Len(before))
        /\ boardState'.toolActionType =
              IF boardState.activeToolItem = "TEXT" THEN "WRITING" ELSE "DRAWING"
OnlyErasing ==
    /\ StripOpt(elements') = StripOpt(elements)
    /\ boardState'.toolActionType = "ERASING"
MouseDownEffect(p) ==
    IF boardState.activeToolItem = "ERASER" THEN OnlyErasing ELSE AppendsOne(p)

\* C30 as stated: every mouse-down an authorized session handles with a
\* non-eraser tool appends exactly one zero-size element of the active tool's
\* type and style and sets actionType to WRITING (TEXT) or DRAWING; with the
\* ERASER it appends nothing and sets actionType to ERASING.
C30_MouseDownAppendsOne ==
    [][\A p \in DownPoints :
          (MouseDown(p) /\ isAuthorized) => MouseDownEffect(p)]_vars

\* C30: the same for every mouse-down handled while actionType is not
\* WRITING; while actionType is WRITING a mouse-down dispatches nothing and
\* leaves the board as it is.
C30_MouseDownAppendsOneUnlessWriting ==
    [][\A p \in DownPoints :
          (MouseDown(p) /\ isAuthorized) =>
             IF boardState.toolActionType = "WRITING"
             THEN /\ ev' = <<>>
                  /\ StripOpt(elements') = StripOpt(elements)
                  /\ boardState'.toolActionType = "WRITING"
             ELSE MouseDownEffect(p)]_vars
C30_Witness ==
    /\ handler = "MouseDown" /\ ev = <<"DRAW_DOWN">>
    /\ boardState.toolActionType = "WRITING"
    /\ Len(Val(elements)) = 3

\* ---- C28
Mutating == {"create", "delete", "share"}

\* C28: while no credential token is stored no canvas create, delete or
\* share request is issued, and no canvas load request either (at start-up
\* or later).
C28_NoTokenNoRequests ==
    [][/\ (handler = "mount" /\ ~token) => loads = {}
       /\ ~token => /\ \A r \in requests' : r.kind \notin Mutating
                    /\ loads' \subseteq loads
      ]_vars

\* ---- C29
Rejected == requests' = {} /\ pending' = pending

\* C29: local precondition failures are rejected before any network call: a
\* registration whose password differs from its confirmation issues no
\* request, and a share attempt with an empty or whitespace-only email or
\* with no canvas selected issues no request and sets an error notice.
C29_LocalRejection ==
    [][/\ (Submit /\ password # confirmPassword) => Rejected
       /\ (Share /\ (trim(email) = "" \/ Falsy(boardState.canvasId))) =>
             Rejected /\ error' # ""
      ]_vars
C29_Witness ==
    /\ handler = "Share" /\ email = " " /\ token
    /\ ~Falsy(boardState.canvasId)
    /\ error = "Please enter an email."

\* ---- C31
\* The effect the claim gives for a DRAW_MOVE to p on the last element.
DrawMoveEffect(p) ==
    /\ IsDef(elements')
    /\ LET before == StripSeq(Val(elements))
           after == StripSeq(Val(elements'))
           n == Len(before)
       IN  /\ Len(after) = n
           /\ \A i \in 1..(n - 1) : after[i] = before[i]
           /\ IF before[n].type \in ShapeTypes
              THEN /\ after[n].x1 = before[n].x1 /\ after[n].y1 = before[n].y1
                   /\ after[n].stroke = before[n].stroke
                   /\ after[n].fill = before[n].fill
                   /\ after[n].size = before[n].size
                   /\ after[n].type = before[n].type
                   /\ after[n].x2 = p[1] /\ after[n].y2 = p[2]
              ELSE after[n] = [before[n] EXCEPT !.points = Append(@, p)]

\* C31: DRAW_MOVE(x,y) changes only the last element: a shape element keeps
\* its anchor, stroke, fill, size and type and gets the endpoint (x,y), a
\* brush element gets (x,y) appended to its points; the length and every
\* other element are unchanged, also when the tool was changed after the
\* DRAW_DOWN.
C31_DrawMoveChangesOnlyLast ==
    [][\A p \in MovePoints :
          (MouseMove(p) /\ DispatchedNext({"DRAW_MOVE"})
             /\ LastType \in ShapeTypes \cup {"BRUSH"}) => DrawMoveEffect(p)]_vars

\* ---- C32
\* C32: CHANGE_TEXT(t) sets the text of the last element to t, leaves the
\* length and every other element unchanged, commits one history entry (the
\* entries after the cursor are dropped, the new elements are appended and
\* index advances by one) and sets actionType to NONE.
C32_ChangeTextCommits ==
    [][\A text \in Texts :
          TextAreaBlur(text) =>
             LET before == StripSeq(Val(elements))
                 after == StripSeq(Val(elements'))
                 n == Len(before)
                 kept == IF index + 1 < Len(history) THEN index + 1 ELSE Len(history)
             IN  /\ ev' = <<"CHANGE_TEXT">> /\ status' # "reducerThrew"
                 /\ after = [before EXCEPT ![n].text = text]
                 /\ Len(history') = kept + 1
                 /\ StripSeq(history'[kept + 1]) = after
                 /\ index' = index + 1
                 /\ boardState'.toolActionType = "NONE"
      ]_vars
C32_Witness ==
    /\ handler = "TextAreaBlur" /\ ev = <<"CHANGE_TEXT">>
    /\ Len(Val(elements)) = 3
    /\ Val(elements)[3].type = "TEXT" /\ Val(elements)[3].text = "hi"
    /\ boardState.toolActionType = "NONE"

\* ---- C33
\* C33: DRAW_MOVE applied while elements is empty fails (the reducer throws)
\* instead of returning the state unchanged.
C33_DrawMoveOnEmptyFails ==
    [][(DispatchedNext({"DRAW_MOVE"}) /\ elements = Def(<<>>))
          => status' = "reducerThrew"]_vars
C33_Witness ==
    /\ handler = "MouseMove" /\ ev = <<"DRAW_MOVE">>
    /\ elements = Def(<<>>) /\ status = "reducerThrew"

\* ---- C34
\* C34: once the client has received an unauthorized message it emits no
\* further drawingUpdate, whatever pointer events follow: the message clears
\* the authorized flag, and while the flag is clear it stays clear and no
\* handler emits a drawingUpdate.
C34_NoUpdateAfterDenial ==
    [][/\ Unauthorized => ~isAuthorized' /\ ~IsDrawingUpdate(sent')
       /\ ~isAuthorized => ~isAuthorized' /\ ~IsDrawingUpdate(sent')
      ]_vars

\* The pointer moved or was released in a gesture the denial interrupted.
C34_Witness ==
    /\ ~isAuthorized /\ Running /\ id = "A"
    /\ handler \in {"MouseMove", "MouseUp"}
    /\ boardState.toolActionType = "DRAWING"
    /\ sent = NoMessage

\* ---- C35
\* The handlers that admit an inbound snapshot or a load result.
Admitting == {"ReceiveDrawingUpdate", "LoadCanvas", "LoadSucceed", "AnimationFrame"}

\* C35: in read-only mode (after an unauthorized message) elements changes
\* only by admitting inbound snapshots or load results: no local input,
\* keyboard undo and redo included, changes elements or index.
C35_ReadOnlyIgnoresLocalInput ==
    [][(~isAuthorized /\ handler' \notin Admitting)
          => /\ StripOpt(elements') = StripOpt(elements)
             /\ index' = index
      ]_vars

\* ---- C36
\* C36: every drawingUpdate is preceded by a joinCanvas for the same canvas:
\* a joinCanvas is emitted for the id the Board mounts with and for each id
\* it changes to, no drawingUpdate is emitted while the id is undefined, and
\* each drawingUpdate carries the id joined last.
C36_UpdateFollowsJoin ==
    [][/\ (handler = "mount" /\ id # NoId) => sent = JoinCanvas(id)
       /\ (id' # id /\ id' # NoId) => sent' = JoinCanvas(id')
       /\ IsDrawingUpdate(sent') => /\ id' # NoId
                                    /\ Val(sent').canvasId = id'
      ]_vars

\* ---- C37
\* C37: when the user has switched from canvas A to canvas B while the load
\* of A was in flight, the late response for A is not admitted (elements,
\* history and canvasId stay as they are), so that once no load is in flight
\* canvasId is the canvas shown.
C37_LateLoadNotAdmitted ==
    [][/\ \A c \in CanvasIds, snap \in Snapshots :
            (Loaded(c, snap) /\ c # id)
               => /\ StripOpt(elements') = StripOpt(elements)
                  /\ StripHistory(history') = StripHistory(history)
                  /\ boardState'.canvasId = boardState.canvasId
       /\ (id' # NoId /\ loads' = {}) => boardState'.canvasId = id'
      ]_vars

\* ---- C38
\* The last event appended an element by DRAW_DOWN or admitted an inbound
\* snapshot.
ChangedSinceLoad ==
    \/ handler = "MouseDown" /\ ev = <<"DRAW_DOWN">>
    \/ handler \in {"ReceiveDrawingUpdate", "LoadCanvas"}

\* C38: the frame callback that re-applies a loaded snapshot discards no
\* later change: the element a DRAW_DOWN appended, or the elements of an
\* inbound snapshot admitted, after the load completed are still in elements
\* after the callback.
C38_FrameKeepsLaterChanges ==
    [][(AnimationFrame /\ ChangedSinceLoad)
          => /\ IsDef(elements')
             /\ \A i \in 1..Len(Val(elements)) :
                   \E j \in 1..Len(Val(elements')) :
                      Strip(Val(elements')[j]) = Strip(Val(elements)[i])
      ]_vars

\* ---- C39
Writing == boardState.toolActionType = "WRITING"

\* C39: while actionType is WRITING, mouse-down, mouse-move and mouse-up
\* dispatch no action (elements, history, index and actionType are left as
\* they are), and actionType leaves WRITING only by a CHANGE_TEXT or a
\* CHANGE_ACTION_TYPE.
C39_WritingIgnoresPointer ==
    [][/\ (Writing /\ PointerEvent)
            => /\ ev' = <<>>
               /\ StripOpt(elements') = StripOpt(elements)
               /\ StripHistory(history') = StripHistory(history)
               /\ index' = index
               /\ boardState'.toolActionType = "WRITING"
       /\ (Writing /\ boardState'.toolActionType # "WRITING")
            => DispatchedNext({"CHANGE_TEXT", "CHANGE_ACTION_TYPE"})
      ]_vars

\* The mouse-up of the click that placed a text element.
C39_Witness ==
    /\ handler = "MouseUp" /\ ev = <<>> /\ isAuthorized /\ Writing
    /\ Len(Val(elements)) = 1 /\ Val(elements)[1].type = "TEXT"

\* ---- C40
\* C40: when the list fetched for a logged-in user is empty the client
\* creates a canvas, and once fetchCanvases has resumed after the create the
\* selected canvasId and the route are the canvasId the create request
\* returned, never undefined.
C40_EmptyListSelectsCreated ==
    [][/\ \A ok \in BOOLEAN :
            (ListResponds(ok, <<>>) /\ ok /\ token)
               => \E r \in requests' : r.kind = "create"
       /\ \A hasId \in BOOLEAN :
            FetchCanvasesResumes(hasId)
               => /\ \E p \in pending :
                        /\ p.kind = "resume"
                        /\ boardState'.canvasId = p.arg
                        /\ id' = p.arg
                  /\ boardState'.canvasId \in CanvasIds
      ]_vars

=============================================================================
